---- MODULE Spec2Model ----
(***************************************************************************)
(* Model of the dashboard's Kubernetes watch-api consumer (KubeWatchApi,   *)
(* dashboard/client/api/kube-watch-api.ts): reference-counted             *)
(* subscriptions, the single EventSource connection with its reconnect     *)
(* triggers, STREAM_END handling and delivery of change events to store    *)
(* listeners.                                                              *)
(***************************************************************************)
EXTENDS Integers, Sequences, FiniteSets, TLC

(***************************************************************************)
(* Bounds of the model                                                     *)
(***************************************************************************)
\* subscribe(...) calls whose unsubscribe function is kept
MaxSubs == 1
\* error-retry timers pending at the same time
MaxTimers == 1
\* onRouteEvent handlers awaiting their refresh at the same time
MaxStreamEnds == 1
\* listeners registered on onData at the same time
MaxListeners == 2
\* resource versions carried by change events: 1..MaxVersion
MaxVersion == 1
\* characters of a cluster version string
MaxLen == 5
\* kubectlPath() calls started
MaxCalls == 2
\* cluster ids uuid() gives out
MaxIds == 2
\* contexts of one kubeconfig
MaxContexts == 2
\* commands received by the ClusterManager
MaxCommands == 2

(***************************************************************************)
(* Program constants                                                       *)
(***************************************************************************)
maxReconnectsOnError == 10

\* EventSource.CONNECTING / OPEN / CLOSED
CONNECTING == 0
OPEN == 1
CLOSED == 2
\* Event.eventPhase of an event that is being dispatched at its target
AT_TARGET == 2
\* Event.eventPhase of an event that is not being dispatched
NONE == 0

(***************************************************************************)
(* Collaborators: the registered KubeApi objects, their stores, config     *)
(***************************************************************************)
\* KubeApi objects (each registered in apiManager under its apiBase)
Apis == {"pods", "deployments"}
\* an apiBase / selfLink that apiManager.getApi does not know
UnknownBase == "unregistered"
Stores == {"podsStore", "deploymentStore"}
Namespaces == {"ns1"}
\* namespace argument standing for the cluster scope
ClusterScope == ""

\* configStore: { isClusterAdmin, allowedNamespaces }
Configs ==
  { [isClusterAdmin |-> TRUE, allowedNamespaces |-> {}],
    [isClusterAdmin |-> FALSE, allowedNamespaces |-> Namespaces],
    [isClusterAdmin |-> FALSE, allowedNamespaces |-> {}] }

\* apiManager.getApi(apiBase or selfLink): the KubeApi, or undefined
Undefined == "undefined"
getApi(base) == IF base \in Apis THEN base ELSE Undefined

\* apiManager.getStore(api)
getStore(api) ==
  CASE api = "pods" -> "podsStore"
    [] api = "deployments" -> "deploymentStore"
    [] OTHER -> Undefined

\* KubeApi.getWatchUrl(namespace): the watch url of an api in a namespace
getWatchUrl(api, namespace) == [apiBase |-> api, namespace |-> namespace]

\* KubeApi.parseApi(url): { apiBase, namespace }
parseApi(url) == [apiBase |-> url.apiBase, namespace |-> url.namespace]

Urls == { getWatchUrl(a, n) : a \in Apis, n \in Namespaces \cup {ClusterScope} }
UnknownUrl == getWatchUrl(UnknownBase, ClusterScope)

\* the arguments of one subscribe(...apis) call
ApiArgs == { <<"pods", "deployments">>, <<"pods", "pods">> }

\* this.evtSource when no EventSource is referenced
Null == [readyState |-> CLOSED, query |-> {}, id |-> -1, outlivedTick |-> FALSE,
         erred |-> FALSE]

VARIABLES
  configStore,        \* the configuration the query is computed from
  subscribers,        \* observable.map<KubeApi, number>
  handles,            \* the unsubscribe functions returned so far
  reactionScheduled,  \* the debounced activeApis reaction is waiting to run
  evtSource,          \* this.evtSource (Null when unset); outlivedTick records
                      \* that a tick of reconnectInterval left it in place,
                      \* erred that it has fired "error"
  nextId,             \* identity of the next EventSource constructed
  leaked,             \* EventSources not closed and no longer referenced
  reconnectAttempts,  \* this.reconnectAttempts
  retryTimers,        \* pending setTimeout(() => this.connect()) timers
  streamEnds,         \* onRouteEvent handlers awaiting refreshResourceVersion
  listeners,          \* onData listeners, in registration order
  resourceVersion,    \* KubeApi resource versions by api and namespace
  delivery,           \* what the last emitted change event did
  binary,             \* what is at Kubectl.path, by kubectl version
  initScripts,        \* the init scripts of a version directory are written
  locks,              \* holder of the proper-lockfile lock of a version directory
  pathCalls,          \* the kubectlPath() calls in progress, by caller
  started,            \* kubectlPath() calls started so far
  clusterVersion,     \* the argument of new Kubectl(clusterVersion)
  instance,           \* the Kubectl the constructor produced
  clusters,           \* ClusterManager.clusters: the ids of the registry
  objects,            \* the Cluster objects made so far, by id
  stored,             \* the records of clusterStore, by id
  created,            \* ids uuid() has given out
  handlers,           \* the command handlers, by dispatch slot
  received,           \* commands received so far
  reply,              \* the command whose handler ran last and what it returned
  effects,            \* what the last removeCluster(id) did, in order
  lastAdd,            \* what the last addNewCluster(clusterData) did
  routed,             \* the last request and what getClusterForRequest gave
  session             \* the shell session open() made, its pod, socket and process

provVars == <<binary, initScripts, locks, pathCalls, started, clusterVersion,
              instance>>
connVars == <<configStore, subscribers, handles, reactionScheduled, evtSource,
              nextId, leaked, reconnectAttempts, retryTimers, streamEnds>>
evtVars == <<listeners, resourceVersion, delivery>>
mgrVars == <<clusters, objects, stored, created, handlers, received, reply, effects,
             lastAdd, routed>>
\* what the actions of one class leave alone
besidesWatch == <<provVars, mgrVars, session>>
besidesKubectl == <<connVars, evtVars, mgrVars, session>>
besidesManager == <<connVars, evtVars, provVars, session>>
besidesSession == <<connVars, evtVars, provVars, mgrVars>>
vars == <<connVars, evtVars, provVars, mgrVars, session>>

(***************************************************************************)
(* activeApis, getSubscribersCount, getQuery                               *)
(***************************************************************************)
activeApisOf(subs) == DOMAIN subs
activeApis == activeApisOf(subscribers)

getSubscribersCount(subs, api) ==
  IF api \in DOMAIN subs /\ subs[api] # 0 THEN subs[api] ELSE 0

\* a map without keys
EmptyMap == [a \in {} |-> 0]

MapSet(subs, api, n) ==
  [a \in (DOMAIN subs) \cup {api} |-> IF a = api THEN n ELSE subs[a]]
MapDelete(subs, api) == [a \in (DOMAIN subs) \ {api} |-> subs[a]]

getQuery(apis) ==
  IF configStore.isClusterAdmin
  THEN { getWatchUrl(api, ClusterScope) : api \in apis }
  ELSE { getWatchUrl(api, ns) : api \in apis, ns \in configStore.allowedNamespaces }

(***************************************************************************)
(* Initial state: after the constructor. The reaction has fired once       *)
(* (fireImmediately) and connect() returned early on the empty set.        *)
(***************************************************************************)
\* delivery before any change event was emitted
NoDelivery == [selfLink |-> Undefined, listeners |-> 0, updated |-> FALSE, calls |-> {}]

InitWatch ==
  /\ configStore \in Configs
  /\ subscribers = EmptyMap
  /\ handles = << >>
  /\ reactionScheduled = FALSE
  /\ evtSource = Null
  /\ nextId = 0
  /\ leaked = 0
  /\ reconnectAttempts = maxReconnectsOnError
  /\ retryTimers = 0
  /\ streamEnds = [u \in Urls |-> 0]
  /\ listeners = << >>
  /\ resourceVersion = [a \in Apis |-> [n \in Namespaces \cup {ClusterScope} |-> 0]]
  /\ delivery = NoDelivery

(***************************************************************************)
(* subscribe(...apis) and the unsubscribe function it returns              *)
(***************************************************************************)
RECURSIVE SubscribeAll(_, _)
SubscribeAll(subs, apis) ==
  IF apis = << >> THEN subs
  ELSE SubscribeAll(MapSet(subs, Head(apis), getSubscribersCount(subs, Head(apis)) + 1),
                    Tail(apis))

\* variant: the key is deleted only below zero
UnsubscribeOneKeepsZero(subs, api) ==
  LET count == getSubscribersCount(subs, api) - 1
  IN IF count < 0 THEN MapDelete(subs, api) ELSE MapSet(subs, api, count)

UnsubscribeOne(subs, api) ==
  LET count == getSubscribersCount(subs, api) - 1
  IN IF count <= 0 THEN MapDelete(subs, api) ELSE MapSet(subs, api, count)

RECURSIVE UnsubscribeAll(_, _)
UnsubscribeAll(subs, apis) ==
  IF apis = << >> THEN subs
  ELSE UnsubscribeAll(UnsubscribeOne(subs, Head(apis)), Tail(apis))

\* variant: only a growing key set schedules the reaction
ReactionOnGrowth(before, after) ==
  reactionScheduled' =
    (reactionScheduled \/ ~(activeApisOf(after) \subseteq activeApisOf(before)))

\* the reaction on activeApis: a change of the key set schedules one debounced run
ReactionOn(before, after) ==
  reactionScheduled' = (reactionScheduled \/ activeApisOf(before) # activeApisOf(after))

\* subscribe(...apis), while fewer than n unsubscribe functions are kept
SubscribeWithin(apis, n) ==
  /\ Len(handles) < n
  /\ subscribers' = SubscribeAll(subscribers, apis)
  /\ handles' = Append(handles, [apis |-> apis, invoked |-> FALSE])
  /\ ReactionOn(subscribers, subscribers')
  /\ UNCHANGED <<besidesWatch, configStore, evtSource, nextId, leaked, reconnectAttempts,
                 retryTimers, streamEnds, evtVars>>

Subscribe(apis) == SubscribeWithin(apis, MaxSubs)

Unsubscribe(h) ==
  /\ h \in DOMAIN handles
  /\ subscribers' = UnsubscribeAll(subscribers, handles[h].apis)
  /\ handles' = [handles EXCEPT ![h].invoked = TRUE]
  /\ ReactionOn(subscribers, subscribers')
  /\ UNCHANGED <<besidesWatch, configStore, evtSource, nextId, leaked, reconnectAttempts,
                 retryTimers, streamEnds, evtVars>>

Reset ==
  /\ subscribers' = EmptyMap
  /\ ReactionOn(subscribers, subscribers')
  /\ UNCHANGED <<besidesWatch, configStore, handles, evtSource, nextId, leaked, reconnectAttempts,
                 retryTimers, streamEnds, evtVars>>

(***************************************************************************)
(* connect, disconnect, reconnect                                          *)
(***************************************************************************)
Live(es) == es # Null /\ es.readyState # CLOSED

\* variant: the EventSource is neither closed nor dropped
DisconnectKeepsOpen(es) == es

\* disconnect(): closes the EventSource and drops the reference
Disconnect(es) == Null

NewEventSource(query) ==
  [readyState |-> CONNECTING, query |-> query, id |-> nextId, outlivedTick |-> FALSE,
   erred |-> FALSE]

\* variant: a connection is opened whatever the active set
ConnectResultAlwaysOpens(es) ==
  LET d == IF es # Null THEN Disconnect(es) ELSE es
  IN [evtSource |-> NewEventSource(getQuery(activeApis)),
      leaked |-> leaked + (IF Live(d) THEN 1 ELSE 0),
      opened |-> TRUE]

\* connect() called with this.evtSource = es: the new this.evtSource, the
\* number of unreferenced live EventSources, and whether one was constructed
ConnectResult(es) ==
  LET d == IF es # Null THEN Disconnect(es) ELSE es
  IN IF activeApis = {}
     THEN [evtSource |-> d, leaked |-> leaked, opened |-> FALSE]
     ELSE [evtSource |-> NewEventSource(getQuery(activeApis)),
           leaked |-> leaked + (IF Live(d) THEN 1 ELSE 0),
           opened |-> TRUE]

connect(es) ==
  LET r == ConnectResult(es)
  IN /\ evtSource' = r.evtSource
     /\ leaked' = r.leaked
     /\ nextId' = IF r.opened THEN 1 - nextId ELSE nextId

\* variant: reconnects whatever the readyState
reconnectAlways(es) ==
  /\ reconnectAttempts' = maxReconnectsOnError
  /\ connect(es)

reconnect(es) ==
  IF es = Null \/ es.readyState # OPEN
  THEN /\ reconnectAttempts' = maxReconnectsOnError
       /\ connect(es)
  ELSE /\ evtSource' = es
       /\ UNCHANGED <<nextId, leaked, reconnectAttempts>>

\* the debounced reaction runs its effect: () => this.connect()
ReactionFire ==
  /\ reactionScheduled
  /\ reactionScheduled' = FALSE
  /\ connect(evtSource)
  /\ UNCHANGED <<besidesWatch, configStore, subscribers, handles, reconnectAttempts, retryTimers,
                 streamEnds, evtVars>>

\* a call of the public reconnect()
Reconnect ==
  /\ reconnect(evtSource)
  /\ UNCHANGED <<besidesWatch, configStore, subscribers, handles, reactionScheduled, retryTimers,
                 streamEnds, evtVars>>

\* a tick of reconnectInterval = interval(60 * 5, this.reconnect)
Tick ==
  /\ reconnect(IF evtSource = Null THEN Null ELSE [evtSource EXCEPT !.outlivedTick = TRUE])
  /\ UNCHANGED <<besidesWatch, configStore, subscribers, handles, reactionScheduled, retryTimers,
                 streamEnds, evtVars>>

\* a pending setTimeout(() => this.connect(), reconnectTimeoutMs) fires
RetryTimerFire ==
  /\ retryTimers > 0
  /\ retryTimers' = retryTimers - 1
  /\ connect(evtSource)
  /\ UNCHANGED <<besidesWatch, configStore, subscribers, handles, reactionScheduled,
                 reconnectAttempts, streamEnds, evtVars>>

(***************************************************************************)
(* The EventSource: it opens, fails, and delivers messages                 *)
(***************************************************************************)
EsOpen ==
  /\ evtSource # Null
  /\ evtSource.readyState = CONNECTING
  /\ evtSource' = [evtSource EXCEPT !.readyState = OPEN]
  /\ UNCHANGED <<besidesWatch, configStore, subscribers, handles, reactionScheduled, nextId, leaked,
                 reconnectAttempts, retryTimers, streamEnds, evtVars>>

\* variant: one retry more than the budget
OnErrorSchedulesAtZero(eventPhase) == eventPhase = CLOSED /\ reconnectAttempts >= 0

\* onError(evt): schedules a retry while attempts remain
OnErrorSchedules(eventPhase) == eventPhase = CLOSED /\ reconnectAttempts > 0

onError(eventPhase) ==
  IF OnErrorSchedules(eventPhase)
  THEN /\ reconnectAttempts' = reconnectAttempts - 1
       /\ retryTimers' = retryTimers + 1
  ELSE UNCHANGED <<reconnectAttempts, retryTimers>>

\* the EventSource fires "error": the browser either re-establishes the
\* connection (CONNECTING) or fails it (CLOSED); then onerror runs
EsError(fatal, eventPhase) ==
  /\ Live(evtSource)
  /\ OnErrorSchedules(eventPhase) => retryTimers < MaxTimers
  /\ evtSource' = [evtSource EXCEPT !.readyState = IF fatal THEN CLOSED ELSE CONNECTING,
                                    !.erred = TRUE]
  /\ onError(eventPhase)
  /\ UNCHANGED <<besidesWatch, configStore, subscribers, handles, reactionScheduled, nextId, leaked,
                 streamEnds, evtVars>>

(***************************************************************************)
(* Listeners on onData and the delivery of change events                   *)
(***************************************************************************)
\* KubeApi.setResourceVersion(namespace, newVersion)
setResourceVersion(rv, api, namespace, newVersion) ==
  [rv EXCEPT ![api][namespace] = newVersion]

\* the versions rv hold the event's version for its namespace and the cluster scope
Tracked(rv, api, meta) ==
  /\ rv[api][meta.namespace] = meta.resourceVersion
  /\ rv[api][ClusterScope] = meta.resourceVersion

\* variant: every listener's callback is called, whatever its store
ListenerBroadcast(store, meta, rv) ==
  LET api == getApi(meta.selfLink)
  IN IF api = Undefined
     THEN [threw |-> TRUE, rv |-> rv, calls |-> {}]
     ELSE LET rv1 == setResourceVersion(rv, api, meta.namespace, meta.resourceVersion)
              rv2 == setResourceVersion(rv1, api, ClusterScope, meta.resourceVersion)
          IN [threw |-> FALSE,
              rv |-> rv2,
              calls |-> {[store |-> store, sawUpdated |-> Tracked(rv2, api, meta)]}]

\* variant: the callback is called before the versions are set
ListenerCallsFirst(store, meta, rv) ==
  LET api == getApi(meta.selfLink)
  IN IF api = Undefined
     THEN [threw |-> TRUE, rv |-> rv, calls |-> {}]
     ELSE LET rv1 == setResourceVersion(rv, api, meta.namespace, meta.resourceVersion)
              rv2 == setResourceVersion(rv1, api, ClusterScope, meta.resourceVersion)
          IN [threw |-> FALSE,
              rv |-> rv2,
              calls |-> IF store = getStore(api)
                        THEN {[store |-> store, sawUpdated |-> Tracked(rv, api, meta)]}
                        ELSE {}]

\* the listener addListener(store, callback) registers, run on evt.object.metadata
\* with the versions rv: the versions it leaves and the callback call it makes.
\* apiManager.getApi(selfLink) undefined makes api.setResourceVersion throw.
Listener(store, meta, rv) ==
  LET api == getApi(meta.selfLink)
  IN IF api = Undefined
     THEN [threw |-> TRUE, rv |-> rv, calls |-> {}]
     ELSE LET rv1 == setResourceVersion(rv, api, meta.namespace, meta.resourceVersion)
              rv2 == setResourceVersion(rv1, api, ClusterScope, meta.resourceVersion)
          IN [threw |-> FALSE,
              rv |-> rv2,
              calls |-> IF store = getStore(api)
                        THEN {[store |-> store,
                               sawUpdated |-> Tracked(rv2, api, meta)]}
                        ELSE {}]

\* EventEmitter.emit(data): the listeners run in registration order; a listener
\* that throws ends the emit
RECURSIVE Emit(_, _, _, _)
Emit(ls, meta, rv, calls) ==
  IF ls = << >> THEN [rv |-> rv, calls |-> calls]
  ELSE LET r == Listener(Head(ls), meta, rv)
       IN IF r.threw THEN [rv |-> rv, calls |-> calls]
          ELSE Emit(Tail(ls), meta, r.rv, calls \cup r.calls)

AddListener(store) ==
  /\ Len(listeners) < MaxListeners
  /\ listeners' = Append(listeners, store)
  /\ UNCHANGED <<besidesWatch, connVars, resourceVersion, delivery>>

\* the function addListener returned: this.onData.removeListener(listener)
RemoveListener(i) ==
  /\ i \in DOMAIN listeners
  /\ listeners' = [j \in 1..(Len(listeners) - 1) |->
                     IF j < i THEN listeners[j] ELSE listeners[j + 1]]
  /\ UNCHANGED <<besidesWatch, connVars, resourceVersion, delivery>>

(***************************************************************************)
(* onMessage, onRouteEvent                                                 *)
(***************************************************************************)
Metas ==
  [selfLink : Apis \cup {UnknownBase},
   namespace : Namespaces \cup {ClusterScope},
   resourceVersion : 1..MaxVersion]

\* evt.data of a message: nothing, a change event, or a route event
EmptyMessage == [kind |-> "empty"]
ObjectMessages == { [kind |-> "object", metadata |-> m] : m \in Metas }
RouteMessages(urls) ==
  { [kind |-> "route", type |-> t, url |-> u] :
      t \in {"STREAM_END", "STREAM_START"}, u \in urls }

\* the number of handlers awaiting their refresh
PendingIn(se) == Cardinality({ p \in Urls \X (1..MaxStreamEnds) : p[2] <= se[p[1]] })
StreamEndCount == PendingIn(streamEnds)

\* variant: the stream is reconnected without awaiting the refresh
onRouteEventConnectsFirst(type, url) ==
  IF type = "STREAM_END"
  THEN /\ evtSource' = IF activeApis = {} THEN Null
                       ELSE NewEventSource(getQuery(activeApis))
       /\ LET api == getApi(parseApi(url).apiBase)
          IN IF api # Undefined
             THEN streamEnds' = [streamEnds EXCEPT ![url] = @ + 1]
             ELSE UNCHANGED streamEnds
  ELSE UNCHANGED <<evtSource, streamEnds>>

\* onRouteEvent({ type, url }) up to its await
onRouteEvent(type, url) ==
  IF type = "STREAM_END"
  THEN /\ evtSource' = Disconnect(evtSource)
       /\ LET api == getApi(parseApi(url).apiBase)
          IN IF api # Undefined
             THEN streamEnds' = [streamEnds EXCEPT ![url] = @ + 1]
             ELSE UNCHANGED streamEnds
  ELSE UNCHANGED <<evtSource, streamEnds>>

onMessage(data) ==
  CASE data.kind = "empty" ->
         UNCHANGED <<evtSource, streamEnds, resourceVersion, delivery>>
    [] data.kind = "object" ->
         LET r == Emit(listeners, data.metadata, resourceVersion, {})
         IN /\ resourceVersion' = r.rv
            /\ delivery' = [selfLink |-> data.metadata.selfLink,
                            listeners |-> Len(listeners),
                            updated |-> /\ getApi(data.metadata.selfLink) # Undefined
                                        /\ Tracked(r.rv, getApi(data.metadata.selfLink),
                                                   data.metadata),
                            calls |-> r.calls]
            /\ UNCHANGED <<evtSource, streamEnds>>
    [] data.kind = "route" ->
         /\ onRouteEvent(data.type, data.url)
         /\ UNCHANGED <<resourceVersion, delivery>>

\* the open EventSource delivers a message
EsMessage(data) ==
  /\ evtSource # Null
  /\ evtSource.readyState = OPEN
  /\ (data.kind = "route" /\ data.type = "STREAM_END" /\ data.url \in Urls)
        => StreamEndCount < MaxStreamEnds
  /\ onMessage(data)
  /\ UNCHANGED <<besidesWatch, configStore, subscribers, handles, reactionScheduled, nextId, leaked,
                 reconnectAttempts, retryTimers, listeners>>

\* api.refreshResourceVersion({ namespace }) settles and onRouteEvent resumes:
\* fulfilled, it calls reconnect(); rejected, the handler ends there
RefreshDone(url, ok) ==
  /\ streamEnds[url] > 0
  /\ streamEnds' = [streamEnds EXCEPT ![url] = @ - 1]
  /\ IF ok THEN reconnect(evtSource)
     ELSE UNCHANGED <<evtSource, nextId, leaked, reconnectAttempts>>
  /\ UNCHANGED <<besidesWatch, configStore, subscribers, handles, reactionScheduled, retryTimers,
                 evtVars>>

(***************************************************************************)
(* Kubectl: version strings, the compatibility table, the constructor      *)
(***************************************************************************)
\* the characters a cluster version string is made of
Chars == {"v", "1", "6", "9", ".", "\n"}
\* the characters \d matches
Digits == {"0", "1", "2", "3", "4", "5", "6", "7", "8", "9"}
\* the characters . does not match
LineTerminators == {"\n", "\r"}

\* all strings of at most n characters
StringsUpTo(n) == UNION { [1..k -> Chars] : k \in 0..n }

kubectlMap ==
  (<<"1", ".", "7">>      :> <<"1", ".", "8", ".", "1", "5">>) @@
  (<<"1", ".", "8">>      :> <<"1", ".", "9", ".", "1", "0">>) @@
  (<<"1", ".", "9">>      :> <<"1", ".", "1", "0", ".", "1", "3">>) @@
  (<<"1", ".", "1", "0">> :> <<"1", ".", "1", "1", ".", "1", "0">>) @@
  (<<"1", ".", "1", "1">> :> <<"1", ".", "1", "2", ".", "1", "0">>) @@
  (<<"1", ".", "1", "2">> :> <<"1", ".", "1", "3", ".", "1", "2">>) @@
  (<<"1", ".", "1", "3">> :> <<"1", ".", "1", "3", ".", "1", "2">>) @@
  (<<"1", ".", "1", "4">> :> <<"1", ".", "1", "4", ".", "1", "0">>) @@
  (<<"1", ".", "1", "5">> :> <<"1", ".", "1", "5", ".", "1", "0">>) @@
  (<<"1", ".", "1", "6">> :> <<"1", ".", "1", "6", ".", "7">>) @@
  (<<"1", ".", "1", "7">> :> <<"1", ".", "1", "7", ".", "3">>) @@
  (<<"1", ".", "1", "8">> :> <<"1", ".", "1", "8", ".", "0", "-", "b", "e", "t", "a", ".", "1">>)

\* the length of the longest run of characters of cs in s that starts at i
RECURSIVE RunLength(_, _, _)
RunLength(s, i, cs) ==
  IF i > Len(s) \/ s[i] \notin cs THEN 0 ELSE 1 + RunLength(s, i + 1, cs)

NoMatch == [matched |-> FALSE, parts |-> << >>]

\* /^v?(\d+\.\d+)(.*)/.exec(s): parts[1] and parts[2] are the two groups
exec(s) ==
  LET start == IF Len(s) > 0 /\ s[1] = "v" THEN 2 ELSE 1
      dot   == start + RunLength(s, start, Digits)
      rest  == dot + 1 + RunLength(s, dot + 1, Digits)
      end   == rest + RunLength(s, rest, Chars \ LineTerminators)
  IN IF /\ dot > start
        /\ dot <= Len(s)
        /\ s[dot] = "."
        /\ rest > dot + 1
     THEN [matched |-> TRUE,
           parts |-> <<SubSeq(s, start, rest - 1), SubSeq(s, rest, end - 1)>>]
     ELSE NoMatch

NoInstance == [constructed |-> FALSE, threw |-> FALSE, kubectlVersion |-> << >>]

\* variant: the fallback keeps only the remainder of the input
KubectlDropsMinor(cv) ==
  LET versionParts == exec(cv).parts
      minorVersion == versionParts[1]
  IN [constructed |-> TRUE, threw |-> FALSE,
      kubectlVersion |-> IF minorVersion \in DOMAIN kubectlMap
                         THEN kubectlMap[minorVersion]
                         ELSE versionParts[2]]

\* new Kubectl(clusterVersion), for a string the expression matches
Kubectl(cv) ==
  LET versionParts == exec(cv).parts
      minorVersion == versionParts[1]
  IN [constructed |-> TRUE, threw |-> FALSE,
      kubectlVersion |-> IF minorVersion \in DOMAIN kubectlMap
                         THEN kubectlMap[minorVersion]
                         ELSE versionParts[1] \o versionParts[2]]

\* the constructor runs; versionParts[1] of a null match throws a TypeError
Construct ==
  /\ instance = NoInstance
  /\ instance' = IF exec(clusterVersion).matched
                 THEN Kubectl(clusterVersion)
                 ELSE [NoInstance EXCEPT !.threw = TRUE]
  /\ UNCHANGED <<besidesKubectl, binary, initScripts, locks, pathCalls, started,
                 clusterVersion>>

(***************************************************************************)
(* Kubectl: the version directories, their lock, kubectlPath()             *)
(***************************************************************************)
\* Kubectl.bundledKubectlVersion
bundledKubectlVersion == kubectlMap[<<"1", ".", "1", "7">>]
\* the kubectl versions whose directories are provisioned
Versions == {bundledKubectlVersion, kubectlMap[<<"1", ".", "1", "6">>]}
\* the callers of kubectlPath(), in this process or another
Callers == {"c1", "c2"}

\* Kubectl.bundledKubectlPath and this.path
bundledKubectlPath == [bundled |-> TRUE, version |-> bundledKubectlVersion]
PathOf(v) == [bundled |-> FALSE, version |-> v]
NoPath == [bundled |-> FALSE, version |-> << >>]

\* what is at this.path: nothing, a file being written, the released
\* artifact (its md5 is the remote etag), a copy of the bundled binary, or a
\* file with another hash
Contents == {"absent", "partial", "release", "bundled", "stale"}
pathExists(content) == content # "absent"
Complete(content) == content \in {"release", "bundled", "stale"}

NoHolder == "nobody"
\* the hash and etag of a checkBinary that did not come to read them
NotRead == "not read"

NoCall ==
  [pc |-> "idle", version |-> << >>, bundled |-> FALSE, isValid |-> FALSE,
   hash |-> NotRead, etag |-> NotRead, deleted |-> FALSE, copies |-> 0, downloads |-> 0,
   downloadFailed |-> FALSE, scriptWrites |-> 0, lockFailed |-> FALSE,
   ensured |-> "pending", rejected |-> FALSE, result |-> NoPath]

\* the steps of ensureKubectl that run inside the lock callback
InLock == {"checkBundled", "checkBinary", "download", "downloading", "writeInitScripts"}

\* variant: no catch around the ensure-step
kubectlPathNoCatch(call, ensured) ==
  IF ensured = "rejected"
  THEN [call EXCEPT !.pc = "settled", !.ensured = ensured, !.rejected = TRUE]
  ELSE [call EXCEPT !.pc = "settled", !.ensured = ensured, !.result = PathOf(call.version)]

\* kubectlPath(): this.path when ensureKubectl fulfils (with true or with
\* false), the bundled path when it rejects
kubectlPath(call, ensured) ==
  IF ensured = "rejected"
  THEN [call EXCEPT !.pc = "settled", !.ensured = ensured, !.result = bundledKubectlPath]
  ELSE [call EXCEPT !.pc = "settled", !.ensured = ensured, !.result = PathOf(call.version)]

\* a caller constructs a Kubectl for a version and pathCalls kubectlPath()
Start(c, v) ==
  /\ pathCalls[c].pc = "idle"
  /\ started < MaxCalls
  /\ started' = started + 1
  /\ pathCalls' = [pathCalls EXCEPT ![c] = [NoCall EXCEPT !.pc = "ensureDir", !.version = v]]
  /\ UNCHANGED <<besidesKubectl, binary, initScripts, locks, clusterVersion, instance>>

\* await ensureDir(this.dirname, 0o755): a failure rejects ensureKubectl
EnsureDir(c, ok) ==
  /\ pathCalls[c].pc = "ensureDir"
  /\ pathCalls' = [pathCalls EXCEPT ![c] = IF ok THEN [@ EXCEPT !.pc = "lock"]
                                   ELSE kubectlPath(@, "rejected")]
  /\ UNCHANGED <<besidesKubectl, binary, initScripts, locks, started,
                 clusterVersion, instance>>

\* variant: a lock that is granted while another caller holds it
LockAcquiredAlways(v, ok) == ok

\* lockFile.lock(this.dirname) fulfils when nobody holds the lock of the
\* directory and the lock file can be made
LockAcquired(v, ok) == ok /\ locks[v] = NoHolder

\* variant: the lock callback runs although the lock was not acquired
LockProceeds(c, ok) ==
  /\ pathCalls[c].pc = "lock"
  /\ IF LockAcquired(pathCalls[c].version, ok)
     THEN /\ locks' = [locks EXCEPT ![pathCalls[c].version] = c]
          /\ pathCalls' = [pathCalls EXCEPT ![c].pc = "checkBundled"]
     ELSE /\ pathCalls' = [pathCalls EXCEPT ![c].pc = "checkBundled", ![c].lockFailed = TRUE]
          /\ UNCHANGED locks
  /\ UNCHANGED <<besidesKubectl, binary, initScripts, started, clusterVersion, instance>>

\* lockFile.lock(this.dirname).then(...).catch(e => false)
Lock(c, ok) ==
  /\ pathCalls[c].pc = "lock"
  /\ IF LockAcquired(pathCalls[c].version, ok)
     THEN /\ locks' = [locks EXCEPT ![pathCalls[c].version] = c]
          /\ pathCalls' = [pathCalls EXCEPT ![c].pc = "checkBundled"]
     ELSE /\ pathCalls' = [pathCalls EXCEPT ![c] = kubectlPath([@ EXCEPT !.lockFailed = TRUE], "false")]
          /\ UNCHANGED locks
  /\ UNCHANGED <<besidesKubectl, binary, initScripts, started, clusterVersion, instance>>

\* checkBundled(): for the bundled version, copy the bundled binary when
\* nothing is at this.path; a failed copy is caught and gives false
CheckBundled(c, copyOk) ==
  LET call == pathCalls[c]
      v == call.version
      copy == v = bundledKubectlVersion /\ ~pathExists(binary[v])
  IN /\ call.pc = "checkBundled"
     /\ binary' = IF copy /\ copyOk THEN [binary EXCEPT ![v] = "bundled"] ELSE binary
     /\ pathCalls' = [pathCalls EXCEPT ![c] =
                    [call EXCEPT !.pc = "checkBinary",
                                 !.bundled = (v = bundledKubectlVersion /\ (copy => copyOk)),
                                 !.copies = IF copy THEN @ + 1 ELSE @]]
     /\ UNCHANGED <<besidesKubectl, initScripts, locks, started, clusterVersion, instance>>

\* md5File.sync(this.path) and the etag urlEtag() returns: the header value
\* of a probe that answered with one, "" otherwise
RemoteEtag == "etag of the release"
md5File(content) == IF content = "release" THEN RemoteEtag ELSE content
urlEtag(probe) == IF probe = "tag" THEN RemoteEtag ELSE ""

\* variant: an unresolved etag is compared like any other
EtagUnresolvedNever(etag) == FALSE
\* if (etag === "")
EtagUnresolved(etag) == etag = ""

\* variant: the comparison of the hash with the etag always fails
HashNeverMatches(hash, etag) == FALSE
\* if (hash == etag)
HashMatches(hash, etag) == hash = etag

\* variant: an unlink that leaves the file in place
UnlinkedKeeps(content) == content
\* what fs.promises.unlink(this.path) leaves at this.path
Unlinked(content) == "absent"

\* checkBinary(checkTag): md5Ok, probe and unlinkOk are the outcomes of
\* md5File.sync, of the HEAD request and of the unlink
checkBinary(content, checkTag, md5Ok, probe, unlinkOk) ==
  LET hash == md5File(content)
      etag == urlEtag(probe)
      result(threw, valid, after, h, e) ==
        [threw |-> threw, valid |-> valid, content |-> after, hash |-> h, etag |-> e,
         deleted |-> after # content]
  IN IF ~pathExists(content) THEN result(FALSE, FALSE, content, NotRead, NotRead)
     ELSE IF ~checkTag THEN result(FALSE, TRUE, content, NotRead, NotRead)
     ELSE IF ~md5Ok THEN result(TRUE, FALSE, content, NotRead, NotRead)
     ELSE IF EtagUnresolved(etag) THEN result(FALSE, TRUE, content, hash, etag)
     ELSE IF HashMatches(hash, etag) THEN result(FALSE, TRUE, content, hash, etag)
     ELSE IF unlinkOk THEN result(FALSE, FALSE, Unlinked(content), hash, etag)
     ELSE result(TRUE, FALSE, content, hash, etag)

\* const isValid = await this.checkBinary(!bundled); when it throws the lock
\* callback rejects before release() and the catch gives false
CheckBinary(c, md5Ok, probe, unlinkOk) ==
  LET call == pathCalls[c]
      v == call.version
      r == checkBinary(binary[v], ~call.bundled, md5Ok, probe, unlinkOk)
      checked == [call EXCEPT !.isValid = r.valid, !.hash = r.hash, !.etag = r.etag,
                              !.deleted = r.deleted]
  IN /\ call.pc = "checkBinary"
     /\ binary' = [binary EXCEPT ![v] = r.content]
     /\ pathCalls' = [pathCalls EXCEPT ![c] =
                    IF r.threw THEN kubectlPath(checked, "false")
                    ELSE [checked EXCEPT !.pc = IF r.valid THEN "writeInitScripts"
                                                ELSE "download"]]
     /\ UNCHANGED <<besidesKubectl, initScripts, locks, started, clusterVersion, instance>>

\* downloadKubectl(): the request is made and fs.createWriteStream(this.path)
\* opens the target file
DownloadStart(c) ==
  /\ pathCalls[c].pc = "download"
  /\ binary' = [binary EXCEPT ![pathCalls[c].version] = "partial"]
  /\ pathCalls' = [pathCalls EXCEPT ![c].pc = "downloading", ![c].downloads = @ + 1]
  /\ UNCHANGED <<besidesKubectl, initScripts, locks, started, clusterVersion, instance>>

\* the stream completes and the file closes, or the stream errors: the
\* file is unlinked and the rejection is caught and logged by ensureKubectl
DownloadEnd(c, ok) ==
  /\ pathCalls[c].pc = "downloading"
  /\ binary' = [binary EXCEPT ![pathCalls[c].version] = IF ok THEN "release" ELSE Unlinked(@)]
  /\ pathCalls' = [pathCalls EXCEPT ![c].pc = "writeInitScripts", ![c].downloadFailed = ~ok]
  /\ UNCHANGED <<besidesKubectl, initScripts, locks, started, clusterVersion, instance>>

\* writeInitScripts() (a failure is caught and logged), then release() and
\* return true
WriteInitScripts(c, ok) ==
  LET call == pathCalls[c]
      v == call.version
      stale == initScripts[v] # "latest"
  IN /\ call.pc = "writeInitScripts"
     /\ initScripts' = IF stale /\ ok THEN [initScripts EXCEPT ![v] = "latest"]
                       ELSE initScripts
     /\ locks' = [locks EXCEPT ![v] = NoHolder]
     /\ pathCalls' = [pathCalls EXCEPT ![c] =
                    kubectlPath([call EXCEPT !.scriptWrites = IF stale THEN @ + 1 ELSE @],
                                "true")]
     /\ UNCHANGED <<besidesKubectl, binary, started, clusterVersion, instance>>

\* the caller takes the path kubectlPath() resolved with
Return(c) ==
  /\ pathCalls[c].pc = "settled"
  /\ pathCalls' = [pathCalls EXCEPT ![c] = NoCall]
  /\ UNCHANGED <<besidesKubectl, binary, initScripts, locks, started,
                 clusterVersion, instance>>

(***************************************************************************)
(* ClusterManager: the registry, the Cluster objects, clusterStore         *)
(***************************************************************************)
\* the ids uuid() gives out, in order
IdNames == <<"c1", "c2", "c3", "c4">>
Ids == { IdNames[i] : i \in 1..MaxIds }
\* an id no cluster was ever made with
UnknownId == "c0"
\* this.clusters.get(id) of an id that is not a key
NoCluster == "undefined"

\* cluster.preferences: undefined, or its icon: set to null by
\* resetClusterIcon, or the reference path uploadClusterIcon returned
NoPreferences == "no preferences"
NullIcon == "null"
UploadedIcon == "store:///icons/"
\* no record of the id in clusterStore
Absent == "absent"

NoObject == [running |-> FALSE, icon |-> NoPreferences]

\* the state the ClusterManager and its collaborators work on; effects lists
\* the calls the running step has made on the registry and its collaborators
World ==
  [clusters |-> clusters, objects |-> objects, stored |-> stored, created |-> created,
   effects |-> << >>]

\* cluster.stopServer()
stopServer(w, id) ==
  [w EXCEPT !.objects[id].running = FALSE, !.effects = Append(@, "stopServer")]

\* clusterStore.removeCluster(id), storeCluster(cluster), reloadCluster(cluster)
storeRemoveCluster(w, id) ==
  [w EXCEPT !.stored[id] = Absent, !.effects = Append(@, "clusterStore.removeCluster")]
storeCluster(w, id) ==
  [w EXCEPT !.stored[id] = w.objects[id].icon,
            !.effects = Append(@, "clusterStore.storeCluster")]
reloadCluster(w, id) ==
  IF w.stored[id] = Absent THEN w ELSE [w EXCEPT !.objects[id].icon = w.stored[id]]

\* this.clusters.delete(id)
clustersDelete(w, id) ==
  [w EXCEPT !.clusters = @ \ {id}, !.effects = Append(@, "clusters.delete")]

\* getCluster(id)
getCluster(w, id) == IF id \in w.clusters THEN id ELSE NoCluster

\* variant: the registry entry is deleted before the server is stopped
removeClusterDeletesFirst(w, id) ==
  LET cluster == getCluster(w, id)
      begun == w
  IN IF cluster # NoCluster
     THEN storeRemoveCluster(stopServer(clustersDelete(begun, cluster), cluster), cluster)
     ELSE begun

\* variant: an id with no entry is dropped from the store all the same
removeClusterAlways(w, id) ==
  LET cluster == getCluster(w, id)
      begun == w
  IN IF cluster # NoCluster
     THEN clustersDelete(storeRemoveCluster(stopServer(begun, cluster), cluster), cluster)
     ELSE IF id \in Ids THEN storeRemoveCluster(begun, id) ELSE begun

\* removeCluster(id)
removeCluster(w, id) ==
  LET cluster == getCluster(w, id)
      begun == w
  IN IF cluster # NoCluster
     THEN clustersDelete(storeRemoveCluster(stopServer(begun, cluster), cluster), cluster)
     ELSE begun

\* the contexts of a kubeconfig, each one passing k8s.valideConfig or not
Kubeconfigs == UNION { [1..n -> {"valid", "invalid"}] : n \in 0..MaxContexts }

NoAdd == [configs |-> << >>, registered |-> {}, saved |-> {}, settled |-> "none"]

\* variant: the context is validated after its cluster is registered
RECURSIVE addEachValidatesLast(_, _, _, _)
addEachValidatesLast(w, configs, i, add) ==
  IF i > Len(configs) THEN [w |-> w, add |-> add]
  ELSE LET id == IdNames[w.created + 1]
           made == [w EXCEPT !.created = @ + 1, !.objects[id] = NoObject]
           saved == storeCluster(made, id)
           set == [saved EXCEPT !.clusters = @ \cup {id}]
           added == [add EXCEPT !.registered = @ \cup {i}, !.saved = @ \cup {i}]
       IN IF configs[i] = "invalid"
          THEN [w |-> set,
                add |-> [added EXCEPT !.settled = IF @ = "none" THEN "rejected" ELSE @]]
          ELSE addEachValidatesLast(set, configs, i + 1,
                 [added EXCEPT !.settled = IF @ = "none" THEN "resolved" ELSE @])

\* configs.forEach(c => { valideConfig(c); new Cluster({id: uuid(), ...});
\* init; save; this.clusters.set; resolve }): a context that fails the
\* validation throws out of the forEach into the catch, which rejects
RECURSIVE addEach(_, _, _, _)
addEach(w, configs, i, add) ==
  IF i > Len(configs) THEN [w |-> w, add |-> add]
  ELSE IF configs[i] = "invalid"
  THEN [w |-> w, add |-> [add EXCEPT !.settled = IF @ = "none" THEN "rejected" ELSE @]]
  ELSE LET id == IdNames[w.created + 1]
           made == [w EXCEPT !.created = @ + 1, !.objects[id] = NoObject]
           saved == storeCluster(made, id)
           set == [saved EXCEPT !.clusters = @ \cup {id}]
       IN addEach(set, configs, i + 1,
                  [add EXCEPT !.registered = @ \cup {i}, !.saved = @ \cup {i},
                              !.settled = IF @ = "none" THEN "resolved" ELSE @])

\* addNewCluster(clusterData): the promise settles with the first resolve or
\* reject; with no context it is rejected
addNewCluster(w, configs) ==
  addEach(w, configs, 1,
          [NoAdd EXCEPT !.configs = configs,
                        !.settled = IF Len(configs) = 0 THEN "rejected" ELSE "none"])

\* req.headers.host as its labels, req.url as its path segments
LoopbackHost == <<"127", "0", "0", "1:9000">>
Hosts == {LoopbackHost, <<"localhost:9000">>}
           \cup { <<id, "localhost:9000">> : id \in Ids \cup {UnknownId} }
Paths == { << >>, <<"api", "v1">> }
           \cup { <<id>> : id \in Ids \cup {UnknownId} }
           \cup { <<id, "api", "v1">> : id \in Ids \cup {UnknownId} }
Requests == [host : Hosts, url : Paths]

\* req.headers.host.startsWith("127.0.0.1")
startsWithLoopback(host) ==
  /\ Len(host) >= 4
  /\ SubSeq(host, 1, 3) = <<"127", "0", "0">>
  /\ host[4] \in {"1", "1:9000"}

\* variant: the matched segment is dropped from the url
getClusterForRequestStrips(w, req) ==
  IF startsWithLoopback(req.host)
  THEN LET clusterId == IF Len(req.url) = 0 THEN "" ELSE req.url[1]
       IN IF clusterId # ""
          THEN LET cluster == getCluster(w, clusterId)
               IN IF cluster # NoCluster
                  THEN [cluster |-> cluster, url |-> Tail(req.url)]
                  ELSE [cluster |-> cluster, url |-> req.url]
          ELSE [cluster |-> NoCluster, url |-> req.url]
  ELSE [cluster |-> getCluster(w, req.host[1]), url |-> req.url]

\* getClusterForRequest(req): the cluster (NoCluster for null and undefined)
\* and req.url as the call leaves it
getClusterForRequest(w, req) ==
  IF startsWithLoopback(req.host)
  THEN LET clusterId == IF Len(req.url) = 0 THEN "" ELSE req.url[1]
       IN IF clusterId # ""
          THEN LET cluster == getCluster(w, clusterId)
               IN IF cluster # NoCluster
                  THEN [cluster |-> cluster, url |-> <<"api-kube">> \o Tail(req.url)]
                  ELSE [cluster |-> cluster, url |-> req.url]
          ELSE [cluster |-> NoCluster, url |-> req.url]
  ELSE [cluster |-> getCluster(w, req.host[1]), url |-> req.url]

NoRoute == [req |-> [host |-> <<"localhost:9000">>, url |-> << >>],
            cluster |-> NoCluster, url |-> << >>, done |-> FALSE]

\* the proxy resolves the cluster of a request
Route(req) ==
  LET r == getClusterForRequest(World, req)
  IN /\ routed' = [req |-> req, cluster |-> r.cluster, url |-> r.url, done |-> TRUE]
     /\ UNCHANGED <<besidesManager, clusters, objects, stored, created, handlers,
                    received, reply, effects, lastAdd>>

\* the context handler of a registered cluster starts its proxy server
ServerStart(id) ==
  /\ id \in clusters
  /\ ~objects[id].running
  /\ objects' = [objects EXCEPT ![id].running = TRUE]
  /\ UNCHANGED <<besidesManager, clusters, stored, created, handlers, received,
                 reply, effects, lastAdd, routed>>

(***************************************************************************)
(* ClusterManager: the command handlers of listenEvents                    *)
(***************************************************************************)
Commands ==
  {"getCluster", "installFeature", "uninstallFeature", "saveClusterIcon",
   "resetClusterIcon", "refreshCluster", "stopCluster", "removeCluster",
   "getClusterEvents", "clusterStored", "preferencesSaved"}
\* the dispatch slots of promiseIpc: a handler runs in each
Slots == {"s1", "s2"}

NoHandler == [cmd |-> "none", id |-> UnknownId, pc |-> "idle"]
NoReply == [cmd |-> "none", id |-> UnknownId, outcome |-> "none"]

\* where a handler stands after its synchronous part: parked at an await,
\* or done with what it returned ("rejected" when it threw)
Parked(w) == [w |-> w, pc |-> "awaiting", outcome |-> "none"]
Done(w, outcome) == [w |-> w, pc |-> "done", outcome |-> outcome]

\* "getCluster": refreshCluster() is awaited for a registered id
getClusterHandler(w, id) ==
  IF getCluster(w, id) # NoCluster THEN Parked(w) ELSE Done(w, "null")

\* "installFeature": cluster.installFeature of undefined throws inside the try
installFeatureHandler(w, id) ==
  IF getCluster(w, id) # NoCluster THEN Parked(w) ELSE Done(w, "failure")

\* "uninstallFeature", "refreshCluster", "getClusterEvents": the method of
\* undefined throws and nothing catches it
unguardedHandler(w, id) ==
  IF getCluster(w, id) # NoCluster THEN Parked(w) ELSE Done(w, "rejected")

\* "saveClusterIcon": uploadClusterIcon is awaited for a registered id
saveClusterIconHandler(w, id) ==
  IF getCluster(w, id) # NoCluster THEN Parked(w) ELSE Done(w, "failure")

\* "resetClusterIcon"
resetClusterIconHandler(w, id) ==
  IF getCluster(w, id) # NoCluster /\ w.objects[id].icon # NoPreferences
  THEN Done(storeCluster([w EXCEPT !.objects[id].icon = NullIcon], id), "payload")
  ELSE Done(w, "failure")

\* variant: stopping a cluster drops its registry entry
stopClusterHandlerForgets(w, id) ==
  IF getCluster(w, id) # NoCluster
  THEN Done([stopServer(w, id) EXCEPT !.clusters = @ \ {id}], "true")
  ELSE Done(w, "false")

\* "stopCluster"
stopClusterHandler(w, id) ==
  IF getCluster(w, id) # NoCluster THEN Done(stopServer(w, id), "true")
  ELSE Done(w, "false")

\* "removeCluster": the remaining clusters are returned
removeClusterHandler(w, id) == Done(removeCluster(w, id), "payload")

\* "clusterStored"
clusterStoredHandler(w, id) ==
  IF getCluster(w, id) # NoCluster THEN Done(stopServer(reloadCluster(w, id), id), "undefined")
  ELSE Done(w, "undefined")

\* cluster.stopServer() for every cluster of the registry
RECURSIVE stopAll(_, _)
stopAll(w, ids) ==
  IF ids = {} THEN w
  ELSE LET id == CHOOSE i \in ids : TRUE
       IN stopAll(stopServer(w, id), ids \ {id})

\* "preferencesSaved"
preferencesSavedHandler(w) == Done(stopAll(w, w.clusters), "undefined")

\* the synchronous part of the handler of a command
begin(w, cmd, id) ==
  CASE cmd = "getCluster" -> getClusterHandler(w, id)
    [] cmd = "installFeature" -> installFeatureHandler(w, id)
    [] cmd \in {"uninstallFeature", "refreshCluster", "getClusterEvents"} ->
         unguardedHandler(w, id)
    [] cmd = "saveClusterIcon" -> saveClusterIconHandler(w, id)
    [] cmd = "resetClusterIcon" -> resetClusterIconHandler(w, id)
    [] cmd = "stopCluster" -> stopClusterHandler(w, id)
    [] cmd = "removeCluster" -> removeClusterHandler(w, id)
    [] cmd = "clusterStored" -> clusterStoredHandler(w, id)
    [] cmd = "preferencesSaved" -> preferencesSavedHandler(w)

\* variant: a failed copy still records the icon
saveClusterIconResumeStores(w, id, ok) ==
  Done(storeCluster([reloadCluster(w, id) EXCEPT !.objects[id].icon = UploadedIcon], id),
       IF ok THEN "payload" ELSE "failure")

\* "saveClusterIcon" after uploadClusterIcon settled: the catch returns the
\* failure; otherwise reloadCluster, preferences.icon, storeCluster
saveClusterIconResume(w, id, ok) ==
  IF ok
  THEN Done(storeCluster([reloadCluster(w, id) EXCEPT !.objects[id].icon = UploadedIcon], id),
            "payload")
  ELSE Done(w, "failure")

\* the rest of a handler once what it awaited has settled
resume(w, cmd, id, ok) ==
  CASE cmd = "saveClusterIcon" -> saveClusterIconResume(w, id, ok)
    [] cmd = "installFeature" -> Done(w, IF ok THEN "payload" ELSE "failure")
    [] cmd \in {"getCluster", "uninstallFeature", "refreshCluster", "getClusterEvents"} ->
         Done(w, IF ok THEN "payload" ELSE "rejected")

\* the state a step of the ClusterManager leaves
Becomes(w) ==
  /\ clusters' = w.clusters
  /\ objects' = w.objects
  /\ stored' = w.stored
  /\ created' = w.created
  /\ effects' = w.effects

\* promiseIpc runs the handler of a command as the command arrives: it
\* returns, or it stays in its slot awaiting
Receive(slot, cmd, id) ==
  LET r == begin(World, cmd, id)
  IN /\ handlers[slot].pc = "idle"
     /\ received < MaxCommands
     /\ received' = received + 1
     /\ Becomes(r.w)
     /\ handlers' = [handlers EXCEPT ![slot] =
                       IF r.pc = "awaiting" THEN [cmd |-> cmd, id |-> id, pc |-> r.pc]
                       ELSE NoHandler]
     /\ reply' = [cmd |-> cmd, id |-> id, outcome |-> r.outcome]
     /\ UNCHANGED <<besidesManager, lastAdd, routed>>

\* "addCluster": await this.addNewCluster(clusterData)
ReceiveAdd(slot, configs) ==
  LET r == addNewCluster(World, configs)
  IN /\ handlers[slot].pc = "idle"
     /\ received < MaxCommands
     /\ created + Len(configs) <= MaxIds
     /\ received' = received + 1
     /\ Becomes(r.w)
     /\ lastAdd' = r.add
     /\ reply' = [cmd |-> "addCluster", id |-> UnknownId,
                  outcome |-> IF r.add.settled = "resolved" THEN "payload" ELSE "rejected"]
     /\ UNCHANGED <<besidesManager, handlers, routed>>

\* what a waiting handler awaits settles, fulfilled or rejected
Resume(slot, ok) ==
  LET h == handlers[slot]
      r == resume(World, h.cmd, h.id, ok)
  IN /\ h.pc = "awaiting"
     /\ Becomes(r.w)
     /\ handlers' = [handlers EXCEPT ![slot] = NoHandler]
     /\ reply' = [cmd |-> h.cmd, id |-> h.id, outcome |-> r.outcome]
     /\ UNCHANGED <<besidesManager, received, lastAdd, routed>>

\* stop()
Stop ==
  /\ Becomes(stopAll(World, clusters))
  /\ UNCHANGED <<besidesManager, handlers, received, reply, lastAdd, routed>>

(***************************************************************************)
(* NodeShellSession and open(socket, pathToKubeconfig, cluster, nodeName)  *)
(***************************************************************************)
\* nodeName: undefined, or the name of a node
NoNode == ""
NodeNames == {NoNode, "worker-1", "worker-2"}

\* close codes of the websocket: still open, the default of exit(), the code
\* open() exits with when the wait is rejected, and a close by the peer
NotClosed == 0
NormalClosure == 1000
AbnormalClosure == 1001
PeerClosure == 1006

NoSession ==
  [kind |-> "none", nodeName |-> NoNode, pc |-> "none",
   creates |-> 0, podNode |-> NoNode, created |-> "none",
   wait |-> "none", timer |-> FALSE,
   exits |-> 0, deletes |-> 0, pendingDeletes |-> 0,
   socket |-> "open", closeCode |-> NotClosed,
   spawned |-> 0, process |-> "none"]

\* variant: every session is a NodeShellSession
NewSessionAlwaysNode(nodeName) ==
  [NoSession EXCEPT !.kind = "node", !.nodeName = nodeName, !.pc = "kubectlPath"]

\* open(): new NodeShellSession when nodeName is given, new ShellSession
\* otherwise; shell.open() runs up to await this.kubectl.kubectlPath()
NewSession(nodeName) ==
  [NoSession EXCEPT !.kind = IF nodeName # NoNode THEN "node" ELSE "plain",
                    !.nodeName = nodeName, !.pc = "kubectlPath"]

\* ShellSession.exit(code): the websocket is closed with the code if it is open
superExit(s, code) ==
  IF s.socket = "open" THEN [s EXCEPT !.socket = "closing", !.closeCode = code] ELSE s

\* deleteNodeShellPod(): the request is made and its promise dropped
deleteNodeShellPod(s) ==
  [s EXCEPT !.deletes = @ + 1, !.pendingDeletes = @ + 1]

\* variant: exit closes the websocket and leaves the pod
exitWithoutDelete(s, code) ==
  superExit([s EXCEPT !.exits = @ + 1], code)

\* exit(code): NodeShellSession deletes the pod (this.podId is set by the
\* constructor) and calls super.exit(code); a ShellSession has no pod
exit(s, code) ==
  LET called == [s EXCEPT !.exits = @ + 1]
  IN IF s.kind = "node" THEN superExit(deleteNodeShellPod(called), code)
     ELSE superExit(called, code)

\* createNodeShellPod(podId, nodeName) up to its await: the pod with
\* nodeSelector kubernetes.io/hostname = nodeName is requested
createNodeShellPod(s, nodeName) ==
  [s EXCEPT !.creates = @ + 1, !.podNode = nodeName, !.created = "pending"]

\* waitForRunningPod(podId): the watch is started and the timer set
waitForRunningPod(s) == [s EXCEPT !.wait = "waiting", !.timer = TRUE]

\* the rest of open(): pty.spawn(shell, args), the pipes, and the handlers
\* that close the websocket on process exit and kill the process on close
spawn(s) == [s EXCEPT !.spawned = @ + 1, !.process = "running", !.pc = "open"]

\* the promise of waitForRunningPod is rejected: the catch of open() calls
\* exit(1001), the await is over and open() goes on
waitRejected(s) == spawn(exit([s EXCEPT !.wait = "rejected"], AbnormalClosure))

\* open(socket, pathToKubeconfig, cluster, nodeName)
Open(nodeName) ==
  /\ session.kind = "none"
  /\ session' = NewSession(nodeName)
  /\ UNCHANGED besidesSession

\* kubectlPath() resolves: a NodeShellSession calls createNodeShellPod, whose
\* promise is truthy, and awaits waitForRunningPod; a ShellSession spawns
PathResolved ==
  /\ session.pc = "kubectlPath"
  /\ session' = IF session.kind = "node"
                THEN [waitForRunningPod(createNodeShellPod(session, session.nodeName))
                        EXCEPT !.pc = "waiting"]
                ELSE spawn(session)
  /\ UNCHANGED besidesSession

\* createNamespacedPod settles; a rejection is logged by its catch
CreateSettles(ok) ==
  /\ session.created = "pending"
  /\ ok \/ session.wait # "running"
  /\ session' = [session EXCEPT !.created = IF ok THEN "ok" ELSE "failed"]
  /\ UNCHANGED besidesSession

\* the watch reports the pod in phase Running: resolve(true), open() goes on
PodRunning ==
  /\ session.wait = "waiting"
  /\ session.created \in {"pending", "ok"}
  /\ session' = spawn([session EXCEPT !.wait = "running"])
  /\ UNCHANGED besidesSession

\* the done callback of the watch: reject(false)
WatchError ==
  /\ session.wait = "waiting"
  /\ session' = waitRejected(session)
  /\ UNCHANGED besidesSession

\* the timer of 120 s fires: req.abort(); reject(false), which does nothing
\* to a promise that is settled
Timeout ==
  /\ session.timer
  /\ session' = IF session.wait = "waiting"
                THEN waitRejected([session EXCEPT !.timer = FALSE])
                ELSE [session EXCEPT !.timer = FALSE]
  /\ UNCHANGED besidesSession

\* the exec process exits, by itself or killed: the session exits
ProcessExit ==
  /\ session.process \in {"running", "killed"}
  /\ session' = exit([session EXCEPT !.process = "exited"], NormalClosure)
  /\ UNCHANGED besidesSession

\* the websocket emits close, after exit() or by the peer: the handler open()
\* registered kills the process
SocketClose ==
  /\ session.kind # "none"
  /\ session.socket \in {"open", "closing"}
  /\ session' = [session EXCEPT
                   !.socket = "closed",
                   !.closeCode = IF session.socket = "open" THEN PeerClosure ELSE @,
                   !.process = IF @ = "running" THEN "killed" ELSE @]
  /\ UNCHANGED besidesSession

\* deleteNamespacedPod settles, fulfilled or rejected; nothing awaits it
DeleteSettles(ok) ==
  /\ session.pendingDeletes > 0
  /\ session' = [session EXCEPT !.pendingDeletes = @ - 1]
  /\ UNCHANGED besidesSession

(***************************************************************************)
(* Specifications                                                          *)
(***************************************************************************)
\* no version directory provisioned, no call in progress
InitKubectl ==
  /\ binary = [v \in Versions |-> "absent"]
  /\ initScripts = [v \in Versions |-> "missing"]
  /\ locks = [v \in Versions |-> NoHolder]
  /\ pathCalls = [c \in Callers |-> NoCall]
  /\ started = 0

InitConstructor ==
  /\ clusterVersion = << >>
  /\ instance = NoInstance

\* open() not called yet
InitSession == session = NoSession

\* an empty registry, no command received
InitManager ==
  /\ clusters = {}
  /\ objects = [id \in Ids |-> NoObject]
  /\ stored = [id \in Ids |-> Absent]
  /\ created = 0
  /\ handlers = [s \in Slots |-> NoHandler]
  /\ received = 0
  /\ reply = NoReply
  /\ effects = << >>
  /\ lastAdd = NoAdd
  /\ routed = NoRoute

Init == InitWatch /\ InitKubectl /\ InitConstructor /\ InitManager /\ InitSession

Next ==
  \/ \E apis \in ApiArgs : Subscribe(apis)
  \/ \E h \in 1..MaxSubs : Unsubscribe(h)
  \/ Reset
  \/ ReactionFire
  \/ Reconnect
  \/ Tick
  \/ RetryTimerFire
  \/ EsOpen
  \/ \E fatal \in BOOLEAN, eventPhase \in {AT_TARGET, NONE} : EsError(fatal, eventPhase)
  \/ \E data \in {EmptyMessage} \cup RouteMessages(evtSource.query \cup {UnknownUrl}) :
        EsMessage(data)
  \/ \E url \in Urls, ok \in BOOLEAN : RefreshDone(url, ok)

Spec == Init /\ [][Next]_vars

\* change events reaching the listeners of the stores
NextDelivery ==
  \/ \E apis \in {<<"pods", "deployments">>} : Subscribe(apis)
  \/ ReactionFire
  \/ EsOpen
  \/ \E store \in Stores : AddListener(store)
  \/ \E i \in 1..MaxListeners : RemoveListener(i)
  \/ \E data \in ObjectMessages : EsMessage(data)

SpecDelivery == Init /\ [][NextDelivery]_vars

\* kubectlPath() pathCalls over version directories left by earlier runs
InitProvision ==
  /\ InitWatch
  /\ configStore.isClusterAdmin
  /\ binary \in [Versions -> {"absent", "release", "stale"}]
  /\ initScripts = [v \in Versions |-> "missing"]
  /\ locks = [v \in Versions |-> NoHolder]
  /\ pathCalls = [c \in Callers |-> NoCall]
  /\ started = 0
  /\ InitConstructor
  /\ InitManager
  /\ InitSession

NextKubectl ==
  \/ \E c \in Callers, v \in Versions : Start(c, v)
  \/ \E c \in Callers, ok \in BOOLEAN : EnsureDir(c, ok)
  \/ \E c \in Callers, ok \in BOOLEAN : Lock(c, ok)
  \/ \E c \in Callers, copyOk \in BOOLEAN : CheckBundled(c, copyOk)
  \/ \E c \in Callers, md5Ok \in BOOLEAN, probe \in {"error", "noTag", "tag"},
        unlinkOk \in BOOLEAN : CheckBinary(c, md5Ok, probe, unlinkOk)
  \/ \E c \in Callers : DownloadStart(c)
  \/ \E c \in Callers, ok \in BOOLEAN : DownloadEnd(c, ok)
  \/ \E c \in Callers, ok \in BOOLEAN : WriteInitScripts(c, ok)
  \/ \E c \in Callers : Return(c)

SpecKubectl == InitProvision /\ [][NextKubectl]_vars

\* the constructor applied to every string of at most MaxLen characters
InitVersion ==
  /\ InitWatch
  /\ configStore.isClusterAdmin
  /\ InitKubectl
  /\ clusterVersion \in StringsUpTo(MaxLen)
  /\ instance = NoInstance
  /\ InitManager
  /\ InitSession

NextVersion == Construct

SpecVersion == InitVersion /\ [][NextVersion]_vars

\* the ClusterManager made from the clusters clusterStore holds: those that
\* initialise are registered under their stored ids
InitClusters ==
  /\ InitWatch
  /\ configStore.isClusterAdmin
  /\ InitKubectl
  /\ InitConstructor
  /\ created \in 0..1
  /\ clusters = { IdNames[i] : i \in 1..created }
  /\ objects = [id \in Ids |-> NoObject]
  /\ stored = [id \in Ids |-> IF id \in clusters THEN NoPreferences ELSE Absent]
  /\ handlers = [s \in Slots |-> NoHandler]
  /\ received = 0
  /\ reply = NoReply
  /\ effects = << >>
  /\ lastAdd = NoAdd
  /\ routed = NoRoute
  /\ InitSession

NextClusters ==
  \/ \E slot \in Slots, cmd \in Commands, id \in Ids \cup {UnknownId} :
        Receive(slot, cmd, id)
  \/ \E slot \in Slots, configs \in Kubeconfigs : ReceiveAdd(slot, configs)
  \/ \E slot \in Slots, ok \in BOOLEAN : Resume(slot, ok)
  \/ Stop
  \/ \E id \in Ids : ServerStart(id)

SpecClusters == InitClusters /\ [][NextClusters]_vars

\* subscribe calls by more than one caller and their unsubscribe functions
NextSubscriptions ==
  \/ \E apis \in ApiArgs : SubscribeWithin(apis, MaxSubs + 1)
  \/ \E h \in 1..(MaxSubs + 1) : Unsubscribe(h)
  \/ ReactionFire
  \/ EsOpen

SpecSubscriptions == Init /\ [][NextSubscriptions]_vars

\* the stream and its STREAM_END messages, with what the class itself has
\* scheduled bound to happen: the debounced reaction runs, the EventSource
\* opens, an awaited refresh settles. Calls from outside (subscribe,
\* unsubscribe, reconnect()) and ticks of reconnectInterval may or may not come
NextLive ==
  \/ \E apis \in ApiArgs : Subscribe(apis)
  \/ \E h \in 1..MaxSubs : Unsubscribe(h)
  \/ ReactionFire
  \/ Reconnect
  \/ Tick
  \/ EsOpen
  \/ \E data \in RouteMessages(evtSource.query \cup {UnknownUrl}) : EsMessage(data)
  \/ \E url \in Urls, ok \in BOOLEAN : RefreshDone(url, ok)

SpecLive ==
  /\ Init
  /\ [][NextLive]_vars
  /\ WF_vars(ReactionFire)
  /\ WF_vars(EsOpen)
  /\ WF_vars(\E url \in Urls, ok \in BOOLEAN : RefreshDone(url, ok))

\* getClusterForRequest applied to the requests, for every registry
InitRouting ==
  /\ InitWatch
  /\ configStore.isClusterAdmin
  /\ InitKubectl
  /\ InitConstructor
  /\ clusters \in SUBSET Ids
  /\ created = MaxIds
  /\ objects = [id \in Ids |-> NoObject]
  /\ stored = [id \in Ids |-> IF id \in clusters THEN NoPreferences ELSE Absent]
  /\ handlers = [s \in Slots |-> NoHandler]
  /\ received = 0
  /\ reply = NoReply
  /\ effects = << >>
  /\ lastAdd = NoAdd
  /\ routed = NoRoute
  /\ InitSession

NextRouting == \E req \in Requests : Route(req)

SpecRouting == InitRouting /\ [][NextRouting]_vars

\* one shell session from open() to the end of its socket and process
InitShell ==
  /\ InitWatch
  /\ configStore.isClusterAdmin
  /\ InitKubectl
  /\ InitConstructor
  /\ InitManager
  /\ InitSession

NextShell ==
  \/ \E nodeName \in NodeNames : Open(nodeName)
  \/ PathResolved
  \/ \E ok \in BOOLEAN : CreateSettles(ok)
  \/ PodRunning
  \/ WatchError
  \/ Timeout
  \/ ProcessExit
  \/ SocketClose
  \/ \E ok \in BOOLEAN : DeleteSettles(ok)

SpecShell == InitShell /\ [][NextShell]_vars

(***************************************************************************)
(* Properties                                                              *)
(***************************************************************************)

\* C1: the active query set is exactly the set of resources whose stored
\* count is positive, and no stored count is zero or negative.
ActiveSetIsPositiveCounts ==
  /\ \A api \in Apis : (api \in activeApis) <=> (getSubscribersCount(subscribers, api) > 0)
  /\ \A api \in DOMAIN subscribers : subscribers[api] > 0

\* a resource subscribed twice by one call was counted down to zero and removed
ActiveSetWitness ==
  \E h \in DOMAIN handles :
    /\ handles[h].invoked
    /\ handles[h].apis = <<"pods", "pods">>
    /\ "pods" \notin activeApis

\* C2: at most one EventSource is Connecting or Connected, whatever the
\* interleaving of reaction runs, retry timers, ticks, reconnect() calls and
\* STREAM_END handling.
OpenConnections == leaked + (IF Live(evtSource) THEN 1 ELSE 0)
AtMostOneConnection == OpenConnections <= 1

\* a second EventSource was constructed and is open
SecondConnectionWitness ==
  evtSource # Null /\ evtSource.id = 1 /\ evtSource.readyState = OPEN

\* C3: every retry scheduled by an error consumes one unit of the budget of
\* maxReconnectsOnError; with the budget exhausted an error schedules no
\* connect, and once no retry is pending a new connection is opened only by
\* the subscription reaction or by a reconnect() call (manual, the timer tick,
\* or the end of a STREAM_END refresh).
\* (The fixed delay of the retry is a matter of time and is not modelled.)
RetryBudgetBounded ==
  /\ [](reconnectAttempts \in 0..maxReconnectsOnError)
  /\ [][retryTimers' > retryTimers
          => (reconnectAttempts > 0 /\ reconnectAttempts' = reconnectAttempts - 1)]_vars
  /\ [][(reconnectAttempts = 0
           /\ \E fatal \in BOOLEAN, eventPhase \in {AT_TARGET, NONE} :
                 EsError(fatal, eventPhase))
          => (retryTimers' = retryTimers /\ nextId' = nextId)]_vars
  /\ [][(reconnectAttempts = 0 /\ retryTimers = 0 /\ nextId' # nextId)
          => (ReactionFire \/ Reconnect \/ Tick \/ \E url \in Urls : RefreshDone(url, TRUE))]_vars

\* the budget is exhausted, no retry is pending and the last connection failed
RetryBudgetWitness ==
  /\ reconnectAttempts = 0
  /\ retryTimers = 0
  /\ evtSource # Null
  /\ evtSource.readyState = CLOSED
  /\ activeApis # {}

\* C4: whenever a connection has reached the Connected state the retry budget
\* is at its maximum (a successful reconnect resets it).
BudgetResetOnConnected ==
  (evtSource # Null /\ evtSource.readyState = OPEN)
    => reconnectAttempts = maxReconnectsOnError

\* C5, as stated: no connection exists while a STREAM_END refresh is pending.
NoConnectionWhileRefreshing == StreamEndCount > 0 => evtSource = Null

StreamEndMessages(urls) == { [kind |-> "route", type |-> "STREAM_END", url |-> u] : u \in urls }

\* C5, amended: on STREAM_END for a registered resource type the handler
\* closes the connection and requests the refresh without opening a
\* connection; while the refresh is pending a connection is opened only by
\* another trigger (subscription reaction, retry timer, tick or reconnect()),
\* the handler's own reconnect coming with the completion of the refresh.
RefreshBeforeHandlerReconnect ==
  /\ [][(streamEnds' # streamEnds /\ \E u \in Urls : streamEnds'[u] > streamEnds[u])
          => /\ evtSource.readyState = OPEN
             /\ evtSource' = Null
             /\ nextId' = nextId
             /\ StreamEndCount' = StreamEndCount + 1]_vars
  /\ [][(nextId' # nextId /\ streamEnds' = streamEnds /\ StreamEndCount > 0)
          => (ReactionFire \/ RetryTimerFire \/ Reconnect \/ Tick)]_vars

\* a refresh is pending and the client is disconnected
RefreshPendingWitness == StreamEndCount > 0 /\ evtSource = Null /\ activeApis # {}

\* C6: a STREAM_END for the resource kind Pod requests exactly one refresh
\* for it, and the completion of that refresh is followed by exactly one
\* reconnect: the budget is reset and a new connection opened unless the
\* current one is open.
PodUrls == { u \in Urls : u.apiBase = "pods" }
ReconnectDone ==
  IF evtSource = Null \/ evtSource.readyState # OPEN
  THEN /\ reconnectAttempts' = maxReconnectsOnError
       /\ activeApis # {} => nextId' # nextId
  ELSE evtSource' = evtSource
StreamEndOneRefreshOneReconnect ==
  /\ [][\A data \in StreamEndMessages(PodUrls) :
          EsMessage(data) => streamEnds'[data.url] = streamEnds[data.url] + 1]_vars
  /\ [][\A u \in PodUrls : streamEnds'[u] < streamEnds[u] => ReconnectDone]_vars

SubscriptionChangeReconnects ==
  /\ []((~reactionScheduled /\ evtSource # Null) => evtSource.query = getQuery(activeApis))
  /\ [][activeApis' # activeApis => reactionScheduled']_vars
  /\ [][ReactionFire =>
          IF activeApis = {} THEN evtSource' = Null
          ELSE /\ nextId' # nextId
               /\ evtSource'.id = nextId
               /\ evtSource'.readyState = CONNECTING
               /\ evtSource'.query = getQuery(activeApis)]_vars

\* changes have settled and the connection carries the query of both resources
SettledQueryWitness ==
  /\ ~reactionScheduled
  /\ Live(evtSource)
  /\ evtSource.query # {}
  /\ activeApis = {"pods", "deployments"}
  /\ evtSource.query = getQuery(activeApis)

\* C9: a listener's callback is called for a change event only if the store
\* that owns the event's resource type is the store it was registered with.
ExactStoreDelivery ==
  \A c \in delivery.calls : c.store = getStore(getApi(delivery.selfLink))

\* an event was emitted to listeners of two different stores and one was called
ExactStoreWitness ==
  /\ delivery.listeners = 2
  /\ Len(listeners) = 2
  /\ listeners[1] # listeners[2]
  /\ Cardinality(delivery.calls) = 1

\* C10, as stated: every change event of a registered resource type leaves its
\* version tracked for its namespace and the cluster scope, set before any
\* callback is called.
EveryEventTracked ==
  delivery.selfLink \in Apis
    => (delivery.updated /\ \A c \in delivery.calls : c.sawUpdated)

\* C10, amended: every change event of a registered resource type emitted
\* while at least one listener is registered leaves its version tracked for
\* its namespace and the cluster scope, set before any callback is called.
EventTrackedByListeners ==
  (delivery.selfLink \in Apis /\ delivery.listeners > 0)
    => (delivery.updated /\ \A c \in delivery.calls : c.sawUpdated)

\* an event reached a callback
EventTrackedWitness ==
  delivery.selfLink \in Apis /\ delivery.listeners > 0 /\ delivery.calls # {}

\* the steps in which a call of kubectlPath() settles
Settles(c) == pathCalls[c].pc # "settled" /\ pathCalls'[c].pc = "settled"

\* C11: whatever the outcome of directory creation, lock acquisition, bundled
\* copy, integrity check, download and init-script writing, kubectlPath()
\* never rejects: it resolves with the version path or the bundled path.
KubectlPathNeverRejects ==
  \A c \in Callers :
    /\ ~pathCalls[c].rejected
    /\ pathCalls[c].pc = "settled" =>
         pathCalls[c].result \in {PathOf(pathCalls[c].version), bundledKubectlPath}

\* ensureKubectl rejected (the directory could not be made) and kubectlPath()
\* resolved with the bundled path
EnsureRejectedWitness ==
  \E c \in Callers :
    /\ pathCalls[c].pc = "settled"
    /\ pathCalls[c].ensured = "rejected"
    /\ pathCalls[c].result = bundledKubectlPath

\* the ensure-step of a call did not provision the binary
NotProvisioned(call) ==
  \/ call.lockFailed
  \/ call.ensured \in {"false", "rejected"}
  \/ call.downloadFailed

\* C12: when the ensure-step fails to provision the version binary,
\* kubectlPath() returns the bundled path, and it returns the version path
\* only when a complete binary is at that path.
FallbackUnlessProvisioned ==
  [][\A c \in Callers :
       Settles(c) =>
         LET call == pathCalls'[c]
         IN /\ NotProvisioned(call) => call.result = bundledKubectlPath
            /\ call.result = PathOf(call.version) => Complete(binary'[call.version])]_vars

\* C13: the steps of the ensure-step run with the lock held, and the lock is
\* released on every path by the time the call has settled.
LockReleasedOnReturn ==
  \A c \in Callers :
    /\ pathCalls[c].pc \in InLock => locks[pathCalls[c].version] = c
    /\ pathCalls[c].pc = "settled" => locks[pathCalls[c].version] # c

\* C14: for every version directory at most one call is inside the locked
\* part of ensureKubectl (bundled copy, check, deletion, download, init
\* scripts), so two calls never download the same version concurrently.
OneProvisioningPerVersion ==
  \A c, d \in Callers :
    (c # d /\ pathCalls[c].pc \in InLock /\ pathCalls[d].pc \in InLock)
      => pathCalls[c].version # pathCalls[d].version

\* one call downloads a version while another call for that version has
\* failed to get the lock
ContendedDownloadWitness ==
  \E c, d \in Callers :
    /\ c # d
    /\ pathCalls[c].pc = "downloading"
    /\ pathCalls[d].pc = "settled"
    /\ pathCalls[d].lockFailed
    /\ pathCalls[d].version = pathCalls[c].version

\* checkBinary read the hash of the cached binary and the probe gave an etag
Compared(call) == call.hash # NotRead /\ call.etag \notin {NotRead, ""}

\* C15: when the cached binary exists and its md5 hash equals the remote
\* etag, checkBinary returns valid, the binary stays in place and the
\* ensure-step issues no download.
MatchingBinaryKept ==
  \A c \in Callers :
    LET call == pathCalls[c]
    IN (Compared(call) /\ call.hash = call.etag) =>
         /\ call.isValid
         /\ ~call.deleted
         /\ call.downloads = 0
         /\ call.pc \in {"writeInitScripts", "settled"}
         /\ call.pc = "writeInitScripts" => binary[call.version] = "release"

\* a call found the hash equal to the etag and returned the version path
\* with the binary in place
MatchingBinaryWitness ==
  \E c \in Callers :
    /\ Compared(pathCalls[c])
    /\ pathCalls[c].hash = pathCalls[c].etag
    /\ pathCalls[c].pc = "settled"
    /\ pathCalls[c].ensured = "true"
    /\ binary[pathCalls[c].version] = "release"

\* checkBinary found the hash different from a non-empty etag
Mismatch(call) == Compared(call) /\ call.hash # call.etag

UnresolvedEtagKeepsBinary ==
  \A c \in Callers :
    LET call == pathCalls[c]
    IN (call.hash # NotRead /\ call.etag = "") =>
         /\ call.isValid
         /\ ~call.deleted
         /\ call.downloads = 0
         /\ call.pc \in {"writeInitScripts", "settled"}
         /\ call.pc = "writeInitScripts" => md5File(binary[call.version]) = call.hash

\* a call whose probe gave no etag kept a binary with another hash
UnresolvedEtagWitness ==
  \E c \in Callers :
    /\ pathCalls[c].etag = ""
    /\ pathCalls[c].hash = "stale"
    /\ pathCalls[c].pc = "settled"
    /\ pathCalls[c].ensured = "true"
    /\ binary[pathCalls[c].version] = "stale"

\* a string read as [v]<major>.<minor><rest>, major and minor being the
\* longest runs of digits: minor is "<major>.<minor>", rest runs to the end
Form(s) ==
  LET body  == IF Len(s) > 0 /\ s[1] = "v" THEN Tail(s) ELSE s
      major == RunLength(body, 1, Digits)
      minor == RunLength(body, major + 2, Digits)
      ok    == major > 0 /\ Len(body) > major /\ body[major + 1] = "." /\ minor > 0
  IN [ok |-> ok,
      minor |-> IF ok THEN SubSeq(body, 1, major + 1 + minor) ELSE << >>,
      rest |-> IF ok THEN SubSeq(body, major + minor + 2, Len(body)) ELSE << >>]

\* the part of a string before its first line terminator
FirstLine(s) == SubSeq(s, 1, RunLength(s, 1, Chars \ LineTerminators))

\* C18: for every cluster version string of the form [v]<major>.<minor><rest>
\* the tool version is the table entry of <major>.<minor> when there is one
\* and <major>.<minor> followed by <rest> verbatim otherwise.
VersionIsTableEntryOrVerbatim ==
  LET form == Form(clusterVersion)
  IN (form.ok /\ instance # NoInstance) =>
       /\ instance.constructed
       /\ instance.kubectlVersion =
            IF form.minor \in DOMAIN kubectlMap THEN kubectlMap[form.minor]
            ELSE form.minor \o form.rest

\* C18, amended: the tool version is the table entry of <major>.<minor> when
\* there is one, and otherwise <major>.<minor> followed by the part of <rest>
\* before its first line terminator.
VersionIsTableEntryOrFirstLine ==
  LET form == Form(clusterVersion)
  IN (form.ok /\ instance # NoInstance) =>
       /\ instance.constructed
       /\ instance.kubectlVersion =
            IF form.minor \in DOMAIN kubectlMap THEN kubectlMap[form.minor]
            ELSE form.minor \o FirstLine(form.rest)

\* a version absent from the table whose remainder carries a line break was
\* resolved
TruncatedVersionWitness ==
  LET form == Form(clusterVersion)
  IN /\ form.ok
     /\ instance.constructed
     /\ form.minor \notin DOMAIN kubectlMap
     /\ FirstLine(form.rest) # << >>
     /\ FirstLine(form.rest) # form.rest

\* C19: when the download stream errors the partial file is removed, the
\* ensure-step reports the failure rather than success, and kubectlPath()
\* falls back to the bundled path.
DownloadErrorReported ==
  \A c \in Callers :
    LET call == pathCalls[c]
    IN call.downloadFailed =>
         /\ call.pc = "writeInitScripts" => ~pathExists(binary[call.version])
         /\ call.pc = "settled" =>
              /\ call.ensured # "true"
              /\ call.result = bundledKubectlPath

\* C20: when the lock cannot be acquired the ensure-step returns false
\* having made no bundled copy, no integrity check, no deletion, no download
\* and no init-script write, and the step changes no version directory, no
\* lock and no other call.
LockFailureDoesNothing ==
  /\ [](\A c \in Callers :
         LET call == pathCalls[c]
         IN call.lockFailed =>
              /\ call.pc = "settled"
              /\ call.ensured = "false"
              /\ call.copies = 0
              /\ call.hash = NotRead /\ call.etag = NotRead
              /\ ~call.deleted
              /\ call.downloads = 0
              /\ call.scriptWrites = 0)
  /\ [][\A c \in Callers :
          (~pathCalls[c].lockFailed /\ pathCalls'[c].lockFailed) =>
            /\ UNCHANGED <<binary, initScripts, locks>>
            /\ \A d \in Callers \ {c} : pathCalls'[d] = pathCalls[d]]_vars

\* a call failed to get the lock of one version and a call for the other
\* version provisioned its binary
LockFailureWitness ==
  \E c, d \in Callers :
    /\ pathCalls[c].lockFailed
    /\ pathCalls[c].ensured = "false"
    /\ pathCalls[d].pc = "settled"
    /\ pathCalls[d].version # pathCalls[c].version
    /\ pathCalls[d].ensured = "true"
    /\ pathCalls[d].downloads = 1
    /\ binary[pathCalls[d].version] = "release"

(***************************************************************************)
(* Properties of the ClusterManager                                        *)
(***************************************************************************)
\* the ids uuid() has given out so far
GivenOut == { IdNames[i] : i \in 1..created }
\* the step runs the handler of a command that has just arrived
Arrives(cmd) == received' # received /\ reply'.cmd = cmd
RemovalEffects == <<"stopServer", "clusterStore.removeCluster", "clusters.delete">>

\* C21: removeCluster(id) of an id that is not in the registry changes neither
\* the registry nor the store nor any server and does not throw, and
\* getCluster(id) of such an id gives no cluster.
UnknownIdIsNoOp ==
  /\ [](\A id \in (Ids \cup {UnknownId}) \ clusters : getCluster(World, id) = NoCluster)
  /\ [][(Arrives("removeCluster") /\ reply'.id \notin clusters)
          => /\ UNCHANGED <<clusters, stored, objects>>
             /\ effects' = << >>
             /\ reply'.outcome = "payload"]_vars

\* removeCluster of an id that was never given out, with a cluster registered
UnknownIdWitness ==
  /\ reply.cmd = "removeCluster"
  /\ reply.id \notin GivenOut
  /\ clusters # {}
  /\ effects = << >>

\* C22: removeCluster(id) of a registered id stops the server, then has the
\* store drop the record, then deletes the registry entry; afterwards neither
\* getCluster nor the routing of any request gives id, the other entries are
\* as they were, and a second removeCluster(id) does nothing.
RemoveStopsDropsDeletes ==
  /\ [][(Arrives("removeCluster") /\ reply'.id \in clusters)
          => LET id == reply'.id
                 after == [World EXCEPT !.clusters = clusters']
             IN /\ effects' = RemovalEffects
                /\ ~objects'[id].running
                /\ stored'[id] = Absent
                /\ clusters' = clusters \ {id}
                /\ getCluster(after, id) = NoCluster
                /\ \A req \in Requests : getClusterForRequest(after, req).cluster # id
                /\ \A other \in Ids \ {id} :
                     objects'[other] = objects[other] /\ stored'[other] = stored[other]]_vars
  /\ [][(Arrives("removeCluster") /\ reply'.id \in GivenOut \ clusters)
          => UNCHANGED <<clusters, stored, objects>> /\ effects' = << >>]_vars

\* a registered cluster has just been removed while another stays registered
RemoveWitness ==
  /\ reply.cmd = "removeCluster"
  /\ reply.id \in GivenOut \ clusters
  /\ effects = RemovalEffects
  /\ clusters # {}

\* the contexts of the last kubeconfig that pass the validation
ValidContexts == { i \in DOMAIN lastAdd.configs : lastAdd.configs[i] = "valid" }

\* C23: a context that fails the validation gets no registry entry and no
\* stored record: an addCluster makes at most as many of each as it has valid
\* contexts, and none from an invalid one.
InvalidContextNotRegistered ==
  /\ [](lastAdd.registered \subseteq ValidContexts /\ lastAdd.saved \subseteq ValidContexts)
  /\ [][Arrives("addCluster")
          => /\ Cardinality(clusters' \ clusters)
                  <= Cardinality({ i \in DOMAIN lastAdd'.configs : lastAdd'.configs[i] = "valid" })
             /\ Cardinality({ id \in Ids : stored[id] = Absent /\ stored'[id] # Absent })
                  <= Cardinality({ i \in DOMAIN lastAdd'.configs : lastAdd'.configs[i] = "valid" })]_vars

\* a kubeconfig whose first context was registered and whose second is invalid
InvalidContextWitness ==
  /\ Len(lastAdd.configs) = 2
  /\ lastAdd.configs[2] = "invalid"
  /\ lastAdd.registered = {1}
  /\ reply.cmd = "addCluster"

\* C24: every valid context of a kubeconfig is registered, wherever it stands
\* among invalid ones, and the new entries are as many as the valid contexts.
EveryValidContextRegistered ==
  /\ lastAdd.registered = ValidContexts
  /\ lastAdd.settled # "none" => Cardinality(lastAdd.registered) = Cardinality(ValidContexts)

\* the cluster id getClusterForRequest reads off a request: the first path
\* segment for the loopback host, the leading label of the host otherwise
RequestedId(req) ==
  IF startsWithLoopback(req.host)
  THEN IF Len(req.url) = 0 THEN "" ELSE req.url[1]
  ELSE req.host[1]

\* C25 as stated: on a loopback match the id segment is removed from the
\* path; without a match the result is empty and the url is as it was.
MatchedSegmentRemoved ==
  routed.done =>
    LET req == routed.req
        id == RequestedId(req)
    IN IF id \in clusters
       THEN /\ routed.cluster = id
            /\ routed.url = IF startsWithLoopback(req.host) THEN Tail(req.url) ELSE req.url
       ELSE routed.cluster = NoCluster /\ routed.url = req.url

\* C25: for the loopback host the id is the first path segment and, on a
\* match, that segment is replaced by "api-kube" in the path; otherwise the id
\* is the leading label of the host; without a match the result is empty and
\* the url is as it was.
MatchedSegmentReplaced ==
  routed.done =>
    LET req == routed.req
        id == RequestedId(req)
    IN IF id \in clusters
       THEN /\ routed.cluster = id
            /\ routed.url = IF startsWithLoopback(req.host)
                            THEN <<"api-kube">> \o Tail(req.url) ELSE req.url
       ELSE routed.cluster = NoCluster /\ routed.url = req.url

\* a loopback request whose first segment is a registered id, with more path
LoopbackMatchWitness ==
  /\ routed.done
  /\ startsWithLoopback(routed.req.host)
  /\ routed.cluster \in clusters
  /\ Len(routed.req.url) > 1

GuardedCommands ==
  {"getCluster", "installFeature", "uninstallFeature", "saveClusterIcon",
   "resetClusterIcon", "refreshCluster", "stopCluster", "removeCluster",
   "getClusterEvents"}

\* C26: no handler of these commands throws or rejects, whatever the id.
NoHandlerRejects == reply.cmd \in GuardedCommands => reply.outcome # "rejected"

\* C27: the ids of the registry change only as an addCluster adds some or a
\* removeCluster removes its id; every other command, the resuming of a
\* handler, stop() and the start of a server leave them as they are.
RegistryChangesByAddAndRemove ==
  [][clusters' # clusters
       => \/ Arrives("addCluster") /\ clusters \subseteq clusters'
          \/ Arrives("removeCluster") /\ clusters' = clusters \ {reply'.id}]_vars

\* stopCluster has stopped the server of a cluster, which is still registered
StoppedStaysRegisteredWitness ==
  /\ reply.cmd = "stopCluster"
  /\ reply.outcome = "true"
  /\ effects = <<"stopServer">>
  /\ reply.id \in clusters
  /\ ~objects[reply.id].running

\* the step settles what the handler in the slot awaits
Resumes(slot) == handlers[slot].pc = "awaiting" /\ handlers'[slot] # handlers[slot]

\* C28: when the copy of a saveClusterIcon fails the handler returns a failure
\* and is over, and neither the icon nor the store changes; when it succeeds
\* the icon is the new reference path and the cluster is stored with it.
SaveIconFailureChangesNothing ==
  [][\A slot \in Slots :
       (Resumes(slot) /\ handlers[slot].cmd = "saveClusterIcon")
         => LET id == handlers[slot].id
            IN /\ handlers'[slot].pc = "idle"
               /\ reply'.cmd = "saveClusterIcon" /\ reply'.id = id
               /\ reply'.outcome \in {"failure", "payload"}
               /\ reply'.outcome = "failure"
                    => UNCHANGED <<objects, stored>> /\ effects' = << >>
               /\ reply'.outcome = "payload"
                    => /\ objects'[id].icon = UploadedIcon
                       /\ stored'[id] = UploadedIcon
                       /\ effects' = <<"clusterStore.storeCluster">>]_vars

\* the copy failed for a registered cluster
SaveIconFailureWitness ==
  /\ reply.cmd = "saveClusterIcon"
  /\ reply.outcome = "failure"
  /\ reply.id \in clusters
  /\ received = 1

\* C29: no handler of a command for a cluster id starts while a handler of an
\* earlier command for the same id is still awaiting.
SameIdHandlersSequential ==
  [][(received' # received /\ reply'.cmd \in GuardedCommands \cup {"clusterStored"})
       => \A slot \in Slots :
            handlers[slot].pc = "awaiting" => handlers[slot].id # reply'.id]_vars

\* C30: a handler that resumes after its cluster was removed makes no call
\* that stores the cluster, and the record of a removed id stays dropped.
RemovedClusterNotStored ==
  /\ [](\A id \in GivenOut \ clusters : stored[id] = Absent)
  /\ [][\A slot \in Slots :
          (Resumes(slot) /\ handlers[slot].id \notin clusters)
            => \A k \in DOMAIN effects' : effects'[k] # "clusterStore.storeCluster"]_vars

(***************************************************************************)
(* Properties of the shell sessions                                        *)
(***************************************************************************)
\* C31: a node session whose wait for the running pod was rejected is closed
\* with the abnormal code and makes one pod deletion request in all.
TimedOutSessionDeletesOnce ==
  session.wait = "rejected"
    => /\ session.deletes = 1
       /\ session.closeCode \in {AbnormalClosure, PeerClosure}

\* C32: the exec process of a node session is spawned only once the pod was
\* seen running; a session whose wait was rejected spawns none.
SpawnOnlyAfterRunning ==
  (session.kind = "node" /\ session.spawned > 0) => session.wait = "running"

\* C33: every exit of a session that requested a pod makes a deletion request
\* and closes the websocket in the same step, with the request still
\* outstanding; the settling of a deletion changes nothing else and makes no
\* new request.
ExitDeletesWithoutWaiting ==
  /\ [][(session'.exits # session.exits /\ session.creates > 0)
          => /\ session'.deletes = session.deletes + 1
             /\ session'.pendingDeletes = session.pendingDeletes + 1
             /\ session'.socket # "open"
             /\ session'.closeCode # NotClosed]_vars
  /\ [][session'.pendingDeletes < session.pendingDeletes
          => session' = [session EXCEPT !.pendingDeletes = @ - 1]]_vars

\* the session is closed while a deletion it requested has not returned
ClosedWhileDeletingWitness ==
  /\ session.exits > 0
  /\ session.socket = "closed"
  /\ session.process = "exited"
  /\ session.pendingDeletes = session.deletes
  /\ session.deletes > 0

\* C34: when the creation of the pod fails no exec process is spawned, and
\* the session is closed with the abnormal code once open() is through.
CreateFailureAborts ==
  session.created = "failed"
    => /\ session.spawned = 0
       /\ session.pc = "open" => session.closeCode \in {AbnormalClosure, PeerClosure}

\* C35: a session opened without a node name requests no pod and no
\* deletion; a session opened with one requests one pod, pinned to that node.
PodOnlyForNodeSession ==
  /\ session.nodeName = NoNode => session.creates = 0 /\ session.deletes = 0
  /\ (session.nodeName # NoNode /\ session.pc \in {"waiting", "open"})
       => session.creates = 1 /\ session.podNode = session.nodeName
  /\ session.creates <= 1

\* a session without a node name ran until its process had exited
PlainSessionWitness ==
  /\ session.kind = "plain"
  /\ session.nodeName = NoNode
  /\ session.process = "exited"
  /\ session.exits > 0

\* C36: the promise of addNewCluster is rejected whenever the kubeconfig has
\* no context or one of its contexts fails the validation.
InvalidKubeconfigRejected ==
  (lastAdd.settled # "none"
     /\ (Len(lastAdd.configs) = 0
           \/ \E i \in DOMAIN lastAdd.configs : lastAdd.configs[i] = "invalid"))
    => lastAdd.settled = "rejected"

(***************************************************************************)
(* Further properties of KubeWatchApi                                      *)
(***************************************************************************)
\* C37: a resource named by a subscribe call whose unsubscribe function has
\* not been invoked is in the active set, however often the unsubscribe
\* functions of other calls were invoked.
SubscribedStaysActive ==
  \A h \in DOMAIN handles :
    ~handles[h].invoked =>
      \A i \in DOMAIN handles[h].apis : handles[h].apis[i] \in activeApis

\* C38: the firing of an error-retry timer leaves alone a live connection
\* that has had no error, which is one opened after the error of the timer.
RetryTimerSparesLaterConnection ==
  [][(retryTimers' < retryTimers /\ Live(evtSource) /\ ~evtSource.erred)
       => evtSource' = evtSource]_vars

\* C39: whenever there is no connection while a resource is subscribed, as
\* after a STREAM_END message, a new connection is eventually opened, unless
\* the last resource is unsubscribed first.
StreamEndEventuallyReconnects ==
  (evtSource = Null /\ activeApis # {}) ~> (evtSource # Null \/ activeApis = {})

\* C40 as stated: no connection is ever opened with an empty query.
NoConnectionWithEmptyQuery == evtSource # Null => evtSource.query # {}

\* C40: while the active set is empty no step opens a connection, and a
\* connect() from the reaction or from a retry timer leaves none; so every
\* connection was opened for a non-empty active set, and its query is empty
\* only when the user is no cluster admin and has no allowed namespace.
EmptySetOpensNothing ==
  /\ [][activeApis = {}
          => /\ nextId' = nextId
             /\ ((reactionScheduled /\ ~reactionScheduled') \/ retryTimers' < retryTimers)
                  => evtSource' = Null
             /\ evtSource' # evtSource
                  => \/ evtSource' = Null
                     \/ evtSource # Null /\ evtSource'.id = evtSource.id]_vars
  /\ [](evtSource # Null
          => \/ evtSource.query # {}
             \/ ~configStore.isClusterAdmin /\ configStore.allowedNamespaces = {})

\* the last unsubscribe emptied the set and the reaction closed the connection
EmptySetClosedWitness ==
  /\ activeApis = {}
  /\ evtSource = Null
  /\ nextId = 1
  /\ ~reactionScheduled
  /\ \E h \in DOMAIN handles : handles[h].invoked

====
